---- MODULE Spec2Model ----
(***************************************************************************)
(* The chat page of the repository (the Home component): the form state,   *)
(* the conversation (messages), and the asynchronous handleSubmit, which   *)
(* appends the user turn, POSTs to /api/chat, and applies the streamed     *)
(* response to the last turn of the conversation, chunk by chunk.          *)
(*                                                                         *)
(* Text is a sequence of code points, a chunk of the response body is a    *)
(* sequence of bytes.  An invocation of handleSubmit lives in a slot; its  *)
(* position (pc) moves at each await.  The synchronous prefix of the       *)
(* handler is cut once, between the state updates and the call to fetch,   *)
(* and nothing else runs while an invocation is in that cut ("try").       *)
(***************************************************************************)
EXTENDS Integers, Sequences, FiniteSets, TLC

\* ------------------------------------------------------------------ bounds
\* Chunks one response stream may deliver before it ends or fails.
MaxChunks == 2
\* POSTs the page may issue in one behaviour.
MaxSubmits == 2
\* Invocations of handleSubmit that may be alive at once (slots).
MaxActive == 2

Slots == 1..MaxActive

\* ------------------------------------------------------------ input domains
\* What the user may type as a message (code points: 32 is a space, 104 is
\* "h") and as a system prompt.
UserInputs == {<<>>, <<32>>, <<32, 104>>}
DevInputs == {"", "Be brief."}
\* What the user may type as an API key in page.tsx (107 is "k").
KeyInputs == {<<>>, <<32>>, <<107>>}
\* Bytes: 97 is "a"; 195 169 is the two-byte UTF-8 encoding of U+00E9.
Chunks == {<<>>, <<97>>, <<195>>, <<169>>}
\* The chunks of the streams of the page.tsx specification.
KeyedChunks == {<<97>>}
\* The chunks of the streams of the specification with fairness.
LiveChunks == {<<>>, <<97>>}
\* response.status values; response.body is null or a stream.
Statuses == {200, 500}
\* Values a rejected fetch() or read() throws: an Error with a message, or
\* a value that is not an Error.
ThrownValues == {[isError |-> TRUE, message |-> "network error"],
                 [isError |-> FALSE, message |-> ""]}

\* ------------------------------------------------------------------- state
VARIABLES
    apiKey,            \* useState('')            form input (page.tsx only)
    developerMessage,  \* useState('')            form input
    userMessage,       \* useState('')            form input
    messages,          \* useState([])            the turn list
    isLoading,         \* useState(false)
    error,             \* useState('')
    pc,                \* slot -> position of that handleSubmit invocation
    request,           \* slot -> body of the POST in flight
    response,          \* slot -> what fetch resolved with (status, body?)
    assistantMessage,  \* slot -> local accumulator of decoded text
    decoder,           \* slot -> state of the invocation's TextDecoder
    received,          \* slot -> chunks reader.read() has delivered so far
    nPosts,            \* number of fetch() calls issued
    cleared            \* slot -> history: handleClearChat ran while the
                       \*         invocation was running

vars == <<apiKey, developerMessage, userMessage, messages, isLoading, error, pc,
          request, response, assistantMessage, decoder, received, nPosts,
          cleared>>

\* ------------------------------------------------------------ text helpers
\* Code points String.prototype.trim() strips (the ones the inputs can hold).
WhiteSpace == {9, 10, 11, 12, 13, 32}

RECURSIVE TrimStart(_)
TrimStart(s) ==
    IF s # <<>> /\ Head(s) \in WhiteSpace THEN TrimStart(Tail(s)) ELSE s

RECURSIVE TrimEnd(_)
TrimEnd(s) ==
    IF s # <<>> /\ s[Len(s)] \in WhiteSpace
    THEN TrimEnd(SubSeq(s, 1, Len(s) - 1))
    ELSE s

\* userMessage.trim()
Trim(s) == TrimEnd(TrimStart(s))

\* A slip: the test is made on the text as typed.
FailsValidationUntrimmed(s) == s = <<>>

\* !userMessage.trim(): the empty string is the only falsy string.
FailsValidation(s) == Trim(s) = <<>>

\* A slip: the system prompt is sent as typed.
DeveloperMessageAsTyped(s) == s

\* developerMessage || 'You are a helpful assistant.'
DeveloperMessageOrDefault(s) ==
    IF s = "" THEN "You are a helpful assistant." ELSE s

\* ---------------------------------------------------------- the TextDecoder
\* new TextDecoder(): UTF-8, not fatal, BOM not ignored.  decode(value,
\* {stream: true}) runs the UTF-8 decoder over the bytes and keeps its state
\* (the bytes of an unfinished sequence) for the next call.
Replacement == 65533
ByteOrderMark == 65279

NewDecoder ==
    [cp |-> 0, needed |-> 0, seen |-> 0, lower |-> 128, upper |-> 191,
     bomSeen |-> FALSE]

ResetSequence(d) ==
    [d EXCEPT !.cp = 0, !.needed = 0, !.seen = 0, !.lower = 128, !.upper = 191]

\* One code point leaves the decoder: a leading U+FEFF is dropped.
Emit(d, out, c) ==
    IF ~d.bomSeen /\ c = ByteOrderMark
    THEN [state |-> [d EXCEPT !.bomSeen = TRUE], text |-> out]
    ELSE [state |-> [d EXCEPT !.bomSeen = TRUE], text |-> Append(out, c)]

\* The decoder's handler for one byte, applied to the bytes in order.
RECURSIVE DecodeBytes(_, _, _)
DecodeBytes(d, bytes, out) ==
    IF bytes = <<>> THEN [state |-> d, text |-> out]
    ELSE LET b == Head(bytes)
             rest == Tail(bytes)
         IN  IF d.needed = 0
             THEN IF b <= 127
                  THEN LET e == Emit(d, out, b)
                       IN  DecodeBytes(e.state, rest, e.text)
                  ELSE IF b >= 194 /\ b <= 223
                  THEN DecodeBytes([d EXCEPT !.needed = 1, !.cp = b % 32],
                                   rest, out)
                  ELSE IF b >= 224 /\ b <= 239
                  THEN DecodeBytes(
                         [d EXCEPT !.needed = 2, !.cp = b % 16,
                                   !.lower = IF b = 224 THEN 160 ELSE 128,
                                   !.upper = IF b = 237 THEN 159 ELSE 191],
                         rest, out)
                  ELSE IF b >= 240 /\ b <= 244
                  THEN DecodeBytes(
                         [d EXCEPT !.needed = 3, !.cp = b % 8,
                                   !.lower = IF b = 240 THEN 144 ELSE 128,
                                   !.upper = IF b = 244 THEN 143 ELSE 191],
                         rest, out)
                  ELSE LET e == Emit(d, out, Replacement)
                       IN  DecodeBytes(e.state, rest, e.text)
             ELSE IF b < d.lower \/ b > d.upper
                  \* the byte is put back and read again by a fresh sequence
                  THEN LET e == Emit(ResetSequence(d), out, Replacement)
                       IN  DecodeBytes(e.state, bytes, e.text)
                  ELSE LET cp2 == d.cp * 64 + (b % 64)
                       IN  IF d.seen + 1 = d.needed
                           THEN LET e == Emit(ResetSequence(d), out, cp2)
                                IN  DecodeBytes(e.state, rest, e.text)
                           ELSE DecodeBytes(
                                  [d EXCEPT !.cp = cp2, !.seen = d.seen + 1,
                                            !.lower = 128, !.upper = 191],
                                  rest, out)

\* A slip: decode(value) without { stream: true } starts afresh on every
\* chunk and flushes at its end, so an unfinished sequence becomes U+FFFD.
DecodeWithoutStream(d, value) ==
    LET r == DecodeBytes(NewDecoder, value, <<>>)
    IN  [state |-> NewDecoder,
         text |-> IF r.state.needed # 0
                  THEN Append(r.text, Replacement)
                  ELSE r.text]

\* A slip: the bytes of an unfinished sequence are dropped between chunks.
DecodeDroppingTrailingBytes(d, value) ==
    DecodeBytes(ResetSequence(d), value, <<>>)

\* decoder.decode(value, { stream: true })
Decode(d, value) == DecodeBytes(d, value, <<>>)

\* ------------------------------------------------------ messages updaters
UserTurn(content) == [role |-> "user", content |-> content]
AssistantTurn(content) == [role |-> "assistant", content |-> content]

\* A slip: the trimmed text, not the text as typed, becomes the user turn.
AppendTrimmedUserMessage(prev, content) == Append(prev, UserTurn(Trim(content)))

\* prev => [...prev, newUserMessage]
AppendUserMessage(prev, content) == Append(prev, UserTurn(content))

\* A slip: the placeholder is created with a text in it (46 is ".").
AppendFilledPlaceholder(prev) == Append(prev, AssistantTurn(<<46>>))

\* prev => [...prev, { role: 'assistant', content: '' }]
AppendPlaceholder(prev) == Append(prev, AssistantTurn(<<>>))

\* A slip: the accumulated text is added to the turn's content instead of
\* replacing it.
AppendToLastMessage(prev, content) ==
    IF prev = <<>> THEN <<>>
    ELSE [prev EXCEPT ![Len(prev)] = AssistantTurn(@.content \o content)]

\* A slip: the write goes to the first turn of the list.
UpdateFirstMessage(prev, content) ==
    IF prev = <<>> THEN <<>>
    ELSE [prev EXCEPT ![1] = AssistantTurn(content)]

\* A slip: the write goes to the turn before the last one.
UpdateTurnBeforeLast(prev, content) ==
    IF Len(prev) < 2 THEN prev
    ELSE [prev EXCEPT ![Len(prev) - 1] = AssistantTurn(content)]

\* prev => { updated = [...prev]; updated[updated.length - 1] = {...} }
\* On an empty array the write goes to the property "-1": the array keeps
\* length 0, and the property is lost by the next spread or filter.
UpdateLastMessage(prev, content) ==
    IF prev = <<>> THEN <<>>
    ELSE [prev EXCEPT ![Len(prev)] = AssistantTurn(content)]

\* A slip: the catch block rolls the last assistant turn back.
RollBackLastMessage(prev) ==
    IF prev # <<>> /\ prev[Len(prev)].role = "assistant"
    THEN SubSeq(prev, 1, Len(prev) - 1)
    ELSE prev

\* A slip: the catch block removes the last turn alone, if it is empty.
RemoveEmptyLastMessage(prev) ==
    IF prev # <<>> /\ prev[Len(prev)].content = <<>>
    THEN SubSeq(prev, 1, Len(prev) - 1)
    ELSE prev

\* A slip: the catch block leaves the list alone.
KeepAllMessages(prev) == prev

\* prev => prev.filter(msg => msg.content !== '')
FilterEmptyMessages(prev) == SelectSeq(prev, LAMBDA msg : msg.content # <<>>)

\* `API error: ${response.status}`
ApiErrorMessage(status) == "API error: " \o ToString(status)

\* err instanceof Error ? err.message : 'An error occurred'
CaughtMessage(err) == IF err.isError THEN err.message ELSE "An error occurred"

\* ---------------------------------------------------------------- requests
NoRequest == [developer_message |-> "", user_message |-> <<>>, model |-> ""]

\* JSON.stringify({ developer_message, user_message, model })
RequestBody(dev, user) ==
    [developer_message |-> DeveloperMessageOrDefault(dev),
     user_message |-> user,
     model |-> "gpt-4.1-mini"]

\* A slip: the key is left out of the body.
RequestBodyWithoutKey(dev, user, key) == RequestBody(dev, user)

\* page.tsx: JSON.stringify({ developer_message, user_message, model,
\* api_key })
RequestBodyWithKey(dev, user, key) ==
    [developer_message |-> DeveloperMessageOrDefault(dev),
     user_message |-> user,
     model |-> "gpt-4.1-mini",
     api_key |-> key]

\* const response = await fetch(...): nothing yet, or a status and a body
\* that is a stream or null.
NoResponse == [status |-> 0, hasBody |-> FALSE]
Response(status, hasBody) == [status |-> status, hasBody |-> hasBody]

\* A slip: the reader is taken to be there.
ReaderNeverMissing(hasBody) == FALSE

\* const reader = response.body?.getReader(); if (!reader) throw ...
ReaderMissing(hasBody) == ~hasBody

\* A slip: the status is never looked at.
AlwaysOk(status) == TRUE

\* response.ok
ResponseOk(status) == status >= 200 /\ status <= 299

\* ------------------------------------------------------------ the scheduler
\* Positions of an invocation: "idle" (never ran), "try" (state updates
\* queued, fetch not yet called), "fetch" (awaiting fetch), "read" (awaiting
\* reader.read()), "ended" (returned after the stream ended), "failed"
\* (returned through catch).
Free(i) == pc[i] \in {"idle", "ended", "failed"}
Active(i) == ~Free(i)

\* JavaScript runs a handler to its next await: while an invocation is
\* between its state updates and its call to fetch, nothing else runs.
Running == \E i \in Slots : pc[i] = "try"

\* The slot a new invocation takes: the lowest free one.
FreeSlot == CHOOSE i \in Slots : Free(i) /\ \A j \in Slots : Free(j) => i <= j

\* A slip: the disabled attributes are missing.
FormAlwaysEnabled == TRUE

\* <input disabled={isLoading}> and <button type="submit"
\* disabled={isLoading}>: the form cannot be submitted, nor the message
\* edited, while isLoading is true.
FormEnabled == ~isLoading

\* {messages.length > 0 && <button onClick={handleClearChat}>}
ClearButtonShown == Len(messages) > 0

\* A slip: isLoading is not reset when the handler returns.
LoadingLeftSet == TRUE

\* finally { setIsLoading(false) }
LoadingAfterFinally == FALSE

\* An invocation returns: its locals are gone, but for the response, which
\* the model keeps until the slot is taken again.
Release(i, at) ==
    /\ pc' = [pc EXCEPT ![i] = at]
    /\ request' = [request EXCEPT ![i] = NoRequest]
    /\ assistantMessage' = [assistantMessage EXCEPT ![i] = <<>>]
    /\ decoder' = [decoder EXCEPT ![i] = NewDecoder]
    /\ received' = [received EXCEPT ![i] = <<>>]
    /\ cleared' = [cleared EXCEPT ![i] = FALSE]

\* A slip: the catch block sends the request again (while the page may
\* still POST).
CatchAndRetry(i, message) ==
    /\ error' = message
    /\ messages' = FilterEmptyMessages(messages)
    /\ IF nPosts < MaxSubmits
       THEN /\ nPosts' = nPosts + 1
            /\ pc' = [pc EXCEPT ![i] = "fetch"]
            /\ assistantMessage' = [assistantMessage EXCEPT ![i] = <<>>]
            /\ decoder' = [decoder EXCEPT ![i] = NewDecoder]
            /\ received' = [received EXCEPT ![i] = <<>>]
            /\ UNCHANGED <<isLoading, request, cleared>>
       ELSE /\ isLoading' = FALSE
            /\ Release(i, "failed")
            /\ nPosts' = nPosts
    /\ UNCHANGED <<apiKey, developerMessage, userMessage>>

\* A slip: the catch block empties the message input.
CatchAndClearInput(i, message) ==
    /\ error' = message
    /\ messages' = FilterEmptyMessages(messages)
    /\ isLoading' = LoadingAfterFinally
    /\ userMessage' = <<>>
    /\ Release(i, "failed")
    /\ UNCHANGED <<apiKey, developerMessage, nPosts>>

\* catch (err) { setError(...); setMessages(filter) } finally
\* { setIsLoading(false) }
Catch(i, message) ==
    /\ error' = message
    /\ messages' = FilterEmptyMessages(messages)
    /\ isLoading' = LoadingAfterFinally
    /\ Release(i, "failed")
    /\ UNCHANGED <<apiKey, developerMessage, userMessage, nPosts>>

\* ------------------------------------------------------------------- Init
Init ==
    /\ apiKey = <<>>
    /\ developerMessage = ""
    /\ userMessage = <<>>
    /\ messages = <<>>
    /\ isLoading = FALSE
    /\ error = ""
    /\ pc = [i \in Slots |-> "idle"]
    /\ request = [i \in Slots |-> NoRequest]
    /\ response = [i \in Slots |-> NoResponse]
    /\ assistantMessage = [i \in Slots |-> <<>>]
    /\ decoder = [i \in Slots |-> NewDecoder]
    /\ received = [i \in Slots |-> <<>>]
    /\ nPosts = 0
    /\ cleared = [i \in Slots |-> FALSE]

\* ---------------------------------------------------------------- actions
\* onChange of the message input: setUserMessage(e.target.value)
TypeUserMessage(s) ==
    /\ ~Running
    /\ FormEnabled
    /\ userMessage' = s
    /\ UNCHANGED <<apiKey, developerMessage, messages, isLoading, error, pc,
                   request, response, assistantMessage, decoder, received,
                   nPosts, cleared>>

\* onChange of the system prompt input: setDeveloperMessage(e.target.value)
TypeDeveloperMessage(s) ==
    /\ ~Running
    /\ developerMessage' = s
    /\ UNCHANGED <<apiKey, userMessage, messages, isLoading, error, pc,
                   request, response, assistantMessage, decoder, received,
                   nPosts, cleared>>

\* handleSubmit, the validation branch: setError('Please enter a message')
SubmitRejected ==
    /\ ~Running
    /\ FormEnabled
    /\ FailsValidation(userMessage)
    /\ error' = "Please enter a message"
    /\ UNCHANGED <<apiKey, developerMessage, userMessage, messages, isLoading,
                   pc, request, response, assistantMessage, decoder, received,
                   nPosts, cleared>>

\* handleSubmit up to the try block: setError(''), setIsLoading(true),
\* setMessages(prev => [...prev, newUserMessage])
SubmitAccepted ==
    /\ ~Running
    /\ FormEnabled
    /\ ~FailsValidation(userMessage)
    /\ nPosts < MaxSubmits
    /\ \E i \in Slots : Free(i)
    /\ LET i == FreeSlot
       IN  /\ error' = ""
           /\ isLoading' = TRUE
           /\ messages' = AppendUserMessage(messages, userMessage)
           /\ pc' = [pc EXCEPT ![i] = "try"]
           /\ request' = [request EXCEPT ![i] = NoRequest]
           /\ response' = [response EXCEPT ![i] = NoResponse]
           /\ assistantMessage' = [assistantMessage EXCEPT ![i] = <<>>]
           /\ decoder' = [decoder EXCEPT ![i] = NewDecoder]
           /\ received' = [received EXCEPT ![i] = <<>>]
           /\ cleared' = [cleared EXCEPT ![i] = FALSE]
    /\ UNCHANGED <<apiKey, developerMessage, userMessage, nPosts>>

\* fetch(`${apiUrl}/api/chat`, { method: 'POST', body: ... }): the POST
\* leaves, the handler suspends at the await.
CallFetch(i) ==
    /\ pc[i] = "try"
    /\ pc' = [pc EXCEPT ![i] = "fetch"]
    /\ request' = [request EXCEPT ![i] = RequestBody(developerMessage, userMessage)]
    /\ nPosts' = nPosts + 1
    /\ UNCHANGED <<apiKey, developerMessage, userMessage, messages, isLoading,
                   error, response, assistantMessage, decoder, received,
                   cleared>>

\* fetch rejects (no response at all): the catch and finally blocks run.
FetchRejects(i, err) ==
    /\ ~Running
    /\ pc[i] = "fetch"
    /\ response' = response
    /\ Catch(i, CaughtMessage(err))

\* fetch resolves with a response: !response.ok throws, a missing body
\* throws, otherwise the placeholder is appended and the first read awaited.
ResponseArrives(i, status, hasBody) ==
    /\ ~Running
    /\ pc[i] = "fetch"
    /\ response' = [response EXCEPT ![i] = Response(status, hasBody)]
    /\ IF ~ResponseOk(status)
       THEN Catch(i, ApiErrorMessage(status))
       ELSE IF ReaderMissing(hasBody)
       THEN Catch(i, "No response body")
       ELSE /\ messages' = AppendPlaceholder(messages)
            /\ pc' = [pc EXCEPT ![i] = "read"]
            /\ UNCHANGED <<apiKey, developerMessage, userMessage, isLoading,
                           error, request, assistantMessage, decoder,
                           received, nPosts, cleared>>

\* reader.read() resolves with { done: false, value }: decode, accumulate,
\* write the accumulated text to the last message.
ReadChunk(i, value) ==
    /\ ~Running
    /\ pc[i] = "read"
    /\ Len(received[i]) < MaxChunks
    /\ LET r == Decode(decoder[i], value)
           text == assistantMessage[i] \o r.text
       IN  /\ decoder' = [decoder EXCEPT ![i] = r.state]
           /\ assistantMessage' = [assistantMessage EXCEPT ![i] = text]
           /\ messages' = UpdateLastMessage(messages, text)
    /\ received' = [received EXCEPT ![i] = Append(@, value)]
    /\ UNCHANGED <<apiKey, developerMessage, userMessage, isLoading, error,
                   pc, request, response, nPosts, cleared>>

\* reader.read() resolves with { done: true }: setUserMessage(''), then
\* finally { setIsLoading(false) }
ReadDone(i) ==
    /\ ~Running
    /\ pc[i] = "read"
    /\ userMessage' = <<>>
    /\ isLoading' = LoadingAfterFinally
    /\ Release(i, "ended")
    /\ UNCHANGED <<apiKey, developerMessage, messages, error, response,
                   nPosts>>

\* reader.read() rejects: the catch and finally blocks run.
ReadFails(i, err) ==
    /\ ~Running
    /\ pc[i] = "read"
    /\ response' = response
    /\ Catch(i, CaughtMessage(err))

\* A slip: clear also ends the loading state.
ClearChatStopsLoading ==
    /\ ~Running
    /\ ClearButtonShown
    /\ messages' = <<>>
    /\ error' = ""
    /\ isLoading' = FALSE
    /\ cleared' = [i \in Slots |-> Active(i)]
    /\ UNCHANGED <<apiKey, developerMessage, userMessage, pc, request,
                   response, assistantMessage, decoder, received, nPosts>>

\* handleClearChat: setMessages([]); setError('')
ClearChat ==
    /\ ~Running
    /\ ClearButtonShown
    /\ messages' = <<>>
    /\ error' = ""
    /\ cleared' = [i \in Slots |-> Active(i)]
    /\ UNCHANGED <<apiKey, developerMessage, userMessage, isLoading, pc,
                   request, response, assistantMessage, decoder, received,
                   nPosts>>

\* page.tsx, onChange of the API key input: setApiKey(e.target.value)
TypeApiKey(s) ==
    /\ ~Running
    /\ apiKey' = s
    /\ UNCHANGED <<developerMessage, userMessage, messages, isLoading, error,
                   pc, request, response, assistantMessage, decoder, received,
                   nPosts, cleared>>

\* page.tsx, handleSubmit, the validation branches: the key first, then the
\* message.
SubmitRejectedKeyed ==
    /\ ~Running
    /\ FormEnabled
    /\ FailsValidation(apiKey) \/ FailsValidation(userMessage)
    /\ error' = IF FailsValidation(apiKey)
                THEN "Please provide an API key"
                ELSE "Please enter a message"
    /\ UNCHANGED <<apiKey, developerMessage, userMessage, messages, isLoading,
                   pc, request, response, assistantMessage, decoder, received,
                   nPosts, cleared>>

\* page.tsx, handleSubmit up to the try block: as in the other page, once
\* the key has passed its validation.
SubmitAcceptedKeyed ==
    /\ ~FailsValidation(apiKey)
    /\ SubmitAccepted

\* page.tsx, the call to fetch: the body carries api_key.
CallFetchKeyed(i) ==
    /\ pc[i] = "try"
    /\ pc' = [pc EXCEPT ![i] = "fetch"]
    /\ request' = [request EXCEPT ![i] =
                      RequestBodyWithKey(developerMessage, userMessage, apiKey)]
    /\ nPosts' = nPosts + 1
    /\ UNCHANGED <<apiKey, developerMessage, userMessage, messages, isLoading,
                   error, response, assistantMessage, decoder, received,
                   cleared>>

Next ==
    \/ \E s \in UserInputs : TypeUserMessage(s)
    \/ \E s \in DevInputs : TypeDeveloperMessage(s)
    \/ SubmitRejected
    \/ SubmitAccepted
    \/ \E i \in Slots : CallFetch(i)
    \/ \E i \in Slots, err \in ThrownValues : FetchRejects(i, err)
    \/ \E i \in Slots, status \in Statuses, hasBody \in BOOLEAN :
          ResponseArrives(i, status, hasBody)
    \/ \E i \in Slots, value \in Chunks : ReadChunk(i, value)
    \/ \E i \in Slots : ReadDone(i)
    \/ \E i \in Slots, err \in ThrownValues : ReadFails(i, err)
    \/ ClearChat

Spec == Init /\ [][Next]_vars

\* The awaits of an invocation settle: fetch resolves or rejects, a read
\* resolves (a chunk, or done) or rejects.
FetchSettles(i) ==
    \/ \E err \in ThrownValues : FetchRejects(i, err)
    \/ \E status \in Statuses, hasBody \in BOOLEAN :
          ResponseArrives(i, status, hasBody)

ReadSettles(i) ==
    \/ \E value \in LiveChunks : ReadChunk(i, value)
    \/ ReadDone(i)
    \/ \E err \in ThrownValues : ReadFails(i, err)

\* The page under the assumption that a handler runs on to its await and
\* that every await settles.
NextLive ==
    \/ \E s \in UserInputs : TypeUserMessage(s)
    \/ \E s \in DevInputs : TypeDeveloperMessage(s)
    \/ SubmitRejected
    \/ SubmitAccepted
    \/ \E i \in Slots : CallFetch(i)
    \/ \E i \in Slots : FetchSettles(i)
    \/ \E i \in Slots : ReadSettles(i)
    \/ ClearChat

LiveSpec ==
    /\ Init
    /\ [][NextLive]_vars
    /\ \A i \in Slots :
          /\ WF_vars(CallFetch(i))
          /\ WF_vars(FetchSettles(i))
          /\ WF_vars(ReadSettles(i))

\* The page of frontend/app/page.tsx, where the user supplies the API key.
NextKeyed ==
    \/ \E s \in KeyInputs : TypeApiKey(s)
    \/ \E s \in UserInputs : TypeUserMessage(s)
    \/ \E s \in DevInputs : TypeDeveloperMessage(s)
    \/ SubmitRejectedKeyed
    \/ SubmitAcceptedKeyed
    \/ \E i \in Slots : CallFetchKeyed(i)
    \/ \E i \in Slots, err \in ThrownValues : FetchRejects(i, err)
    \/ \E i \in Slots, status \in Statuses, hasBody \in BOOLEAN :
          ResponseArrives(i, status, hasBody)
    \/ \E i \in Slots, value \in KeyedChunks : ReadChunk(i, value)
    \/ \E i \in Slots : ReadDone(i)
    \/ \E i \in Slots, err \in ThrownValues : ReadFails(i, err)
    \/ ClearChat

SpecKeyed == Init /\ [][NextKeyed]_vars

\* ------------------------------------------------------ steps and counters
\* The steps of an invocation, told from the change of its position.
SubmitStep(i) == Free(i) /\ pc'[i] = "try"
PostStep(i) == pc[i] = "try" /\ pc'[i] = "fetch"
PlaceholderStep(i) == pc[i] = "fetch" /\ pc'[i] = "read"
ChunkStep(i) == pc[i] = "read" /\ received'[i] # received[i]
EndStep(i) == pc[i] = "read" /\ pc'[i] = "ended"
FailStep(i) == pc[i] \in {"fetch", "read"} /\ pc'[i] = "failed"

TurnsOf(turns, role) == Cardinality({k \in DOMAIN turns : turns[k].role = role})

\* The bytes of a sequence of chunks, end to end.
RECURSIVE Flatten(_)
Flatten(chunks) ==
    IF chunks = <<>> THEN <<>> ELSE Head(chunks) \o Flatten(Tail(chunks))

\* The increments of a stream are the texts its chunks decode to, each by
\* the decoder as the chunks before it left it; this is their concatenation.
RECURSIVE IncrementsText(_, _)
IncrementsText(d, chunks) ==
    IF chunks = <<>> THEN <<>>
    ELSE LET r == Decode(d, Head(chunks))
         IN  r.text \o IncrementsText(r.state, Tail(chunks))

\* The text of a body read as one piece.
WholeText(bytes) == DecodeBytes(NewDecoder, bytes, <<>>).text

LastTurn(turns) == turns[Len(turns)]

\* ------------------------------------------------------------------ claims

\* C1: a submit whose message is not blank appends exactly one user turn
\* carrying the message as typed, and the POST is issued only afterwards: the
\* submit step appends the turn and issues no POST, the POST step finds the
\* turn last in the list and leaves the list alone, no POST is issued by any
\* other step, and no other step adds a user turn.
C1_UserTurnBeforePost ==
    [][ /\ \A i \in Slots :
             /\ SubmitStep(i) =>
                  /\ ~FailsValidation(userMessage)
                  /\ messages' = Append(messages, UserTurn(userMessage))
                  /\ nPosts' = nPosts
             /\ PostStep(i) =>
                  /\ nPosts' = nPosts + 1
                  /\ messages' = messages
                  /\ messages # <<>>
                  /\ messages[Len(messages)] = UserTurn(request'[i].user_message)
        /\ nPosts' # nPosts => \E i \in Slots : PostStep(i)
        /\ TurnsOf(messages', "user") > TurnsOf(messages, "user") =>
             \E i \in Slots : SubmitStep(i)
      ]_vars

\* C1 witness: the user turn is in the list and no POST has been issued yet.
C1_Witness ==
    \E i \in Slots :
        /\ pc[i] = "try"
        /\ nPosts = 0
        /\ messages = <<UserTurn(userMessage)>>
        /\ ~FailsValidation(userMessage)

\* C2: when a stream that clear did not interfere with ends without error,
\* the last turn of the list is the assistant turn whose content is the
\* concatenation of the increments in arrival order, and that content is the
\* text of the body however the body was cut into chunks.
C2_FinalContentIsConcatenation ==
    [][ \A i \in Slots :
          (EndStep(i) /\ ~cleared[i]) =>
              /\ messages' # <<>>
              /\ LastTurn(messages') =
                     AssistantTurn(IncrementsText(NewDecoder, received[i]))
              /\ LastTurn(messages').content = WholeText(Flatten(received[i]))
      ]_vars

\* C2 witness: a stream has ended whose turn holds U+00E9, which only the
\* two chunks <<195>>, <<169>> can have delivered.
C2_Witness ==
    /\ pc[1] = "ended"
    /\ Len(messages) = 2
    /\ LastTurn(messages) = AssistantTurn(<<233>>)

\* C3: once clear has run while a submission is running, the list is empty
\* and stays empty for as long as that submission runs: neither its
\* placeholder nor its increments bring a turn back.
C3_NoResurrectionAfterClear ==
    \A i \in Slots : (Active(i) /\ cleared[i]) => messages = <<>>

\* C4: when the relay answers with a status outside 200..299 and the list
\* holds no assistant turn, the submit ends there: the list still holds no
\* assistant turn, the error is the one message naming the status, and
\* isLoading is false again.
C4_BadStatusLeavesNoAssistantTurn ==
    [][ \A i \in Slots :
          ( /\ pc[i] = "fetch"
            /\ response'[i] # response[i]
            /\ response'[i].status \notin 200..299
            /\ TurnsOf(messages, "assistant") = 0 ) =>
              /\ pc'[i] = "failed"
              /\ TurnsOf(messages', "assistant") = 0
              /\ error' = "API error: " \o ToString(response'[i].status)
              /\ isLoading' = FALSE
      ]_vars

\* C4 witness: a submit on the empty conversation was answered with 500.
C4_Witness ==
    /\ pc[1] = "failed"
    /\ response[1].status = 500
    /\ messages = <<UserTurn(userMessage)>>
    /\ error = "API error: 500"
    /\ ~isLoading

\* C5: when the read fails after increments whose text is not empty, and
\* clear did not interfere, the stream's assistant turn is still the last
\* turn of the list and its content is the concatenation of the increments.
C5_PartialContentSurvivesReadError ==
    [][ \A i \in Slots :
          ( /\ pc[i] = "read"
            /\ pc'[i] = "failed"
            /\ ~cleared[i]
            /\ IncrementsText(NewDecoder, received[i]) # <<>> ) =>
              /\ messages' # <<>>
              /\ LastTurn(messages') =
                     AssistantTurn(IncrementsText(NewDecoder, received[i]))
      ]_vars

\* C5 witness: a read has failed (the response was 2xx with a body) and the
\* last turn is an assistant turn with content, next to the error.
C5_Witness ==
    /\ pc[1] = "failed"
    /\ ResponseOk(response[1].status) /\ response[1].hasBody
    /\ error # ""
    /\ Len(messages) = 2
    /\ LastTurn(messages).role = "assistant"
    /\ LastTurn(messages).content # <<>>

\* C6: while the message is empty or only whitespace, no step (so no submit)
\* starts an invocation, issues a POST, changes isLoading or adds a turn, and
\* the only error a step can set is the validation error.
C6_BlankMessageRejected ==
    [][ Trim(userMessage) = <<>> =>
          /\ pc' = pc
          /\ nPosts' = nPosts
          /\ isLoading' = isLoading
          /\ messages' = messages \/ messages' = <<>>
          /\ (error' # error /\ error' # "") => error' = "Please enter a message"
      ]_vars

\* C6 witness: a whitespace-only message was submitted: the validation
\* error shows, nothing was sent, the list is empty, isLoading is false.
C6_Witness ==
    /\ userMessage = <<32>>
    /\ error = "Please enter a message"
    /\ nPosts = 0
    /\ messages = <<>>
    /\ ~isLoading
    /\ \A i \in Slots : pc[i] = "idle"

\* C7: no two invocations of handleSubmit run at once, so no two streams
\* are open and no second POST or placeholder comes while a stream has not
\* ended; and isLoading is true exactly while an invocation runs.
C7_AtMostOneStream ==
    /\ Cardinality({i \in Slots : Active(i)}) <= 1
    /\ isLoading <=> \E i \in Slots : Active(i)

\* C7 witness: a stream is being read while a valid message sits in the
\* input, a slot is free and the page could still POST.
C7_Witness ==
    /\ pc[1] = "read"
    /\ Free(2)
    /\ ~FailsValidation(userMessage)
    /\ nPosts < MaxSubmits
    /\ isLoading

\* C8 as claimed: isLoading is true if and only if a growing assistant turn
\* exists, the last turn of the list.
C8_LoadingIffGrowingTurn ==
    isLoading <=>
        \E i \in Slots :
            /\ pc[i] = "read"
            /\ messages # <<>>
            /\ LastTurn(messages) = AssistantTurn(assistantMessage[i])

\* C8 as amended: at most one turn is growing, and it is the last turn of
\* the list, an assistant turn; a growing turn exists only while isLoading
\* is true, and isLoading is true exactly while a submission runs (also
\* before the placeholder exists and after clear removed the growing turn).
C8_GrowingTurnImpliesLoading ==
    /\ Cardinality({i \in Slots : pc[i] = "read"}) <= 1
    /\ \A i \in Slots :
          pc[i] = "read" =>
              /\ isLoading
              /\ messages = <<>> \/
                     LastTurn(messages) = AssistantTurn(assistantMessage[i])
              /\ messages = <<>> => cleared[i]
    /\ isLoading <=> \E i \in Slots : pc[i] \in {"try", "fetch", "read"}

\* C8 witness: a turn is growing, after an earlier exchange.
C8_Witness ==
    /\ pc[1] = "read"
    /\ isLoading
    /\ Len(messages) = 4
    /\ LastTurn(messages) = AssistantTurn(assistantMessage[1])
    /\ assistantMessage[1] # <<>>

\* C9: at every state of a stream the growing turn, unless clear removed
\* it, holds the concatenation, in arrival order, of the increments read so
\* far, each once; so every increment is in the turn before the next read.
C9_ContentIsIncrementsSoFar ==
    \A i \in Slots :
        pc[i] = "read" =>
            /\ ~cleared[i] => messages # <<>>
            /\ messages # <<>> =>
                   LastTurn(messages) =
                       AssistantTurn(IncrementsText(NewDecoder, received[i]))

\* C9 witness: two increments with text have been applied.
C9_Witness ==
    /\ pc[1] = "read"
    /\ received[1] = <<<<97>>, <<97>>>>
    /\ LastTurn(messages) = AssistantTurn(<<97, 97>>)

\* C10 as claimed: a failed read removes the stream's assistant turn from
\* the list, whatever it holds, and sets the error.
C10_FailedStreamTurnDiscarded ==
    [][ \A i \in Slots :
          (pc[i] = "read" /\ pc'[i] = "failed" /\ messages # <<>>) =>
              /\ TurnsOf(messages', "assistant") < TurnsOf(messages, "assistant")
              /\ error' # ""
      ]_vars

\* C10 as amended: a failed read removes the stream's assistant turn only if
\* its content is still empty; a turn that has content stays as the last
\* turn with that content; either way no turn with empty content remains
\* and the error is set.
C10_EmptyPlaceholderDiscarded ==
    [][ \A i \in Slots :
          (pc[i] = "read" /\ pc'[i] = "failed") =>
              /\ error' # ""
              /\ \A k \in DOMAIN messages' : messages'[k].content # <<>>
              /\ (messages # <<>> /\ assistantMessage[i] = <<>>) =>
                     /\ Len(messages') < Len(messages)
                     /\ TurnsOf(messages', "assistant")
                            < TurnsOf(messages, "assistant")
              /\ (messages # <<>> /\ assistantMessage[i] # <<>>) =>
                     /\ messages' # <<>>
                     /\ LastTurn(messages') = AssistantTurn(assistantMessage[i])
      ]_vars

\* C10 witness: a read failed before any text arrived and only the user
\* turn is left, next to the error.
C10_Witness ==
    /\ pc[1] = "failed"
    /\ ResponseOk(response[1].status) /\ response[1].hasBody
    /\ error # ""
    /\ messages = <<UserTurn(userMessage)>>

\* The chunks before the last n of a stream, and whether they end inside a
\* multi-byte sequence.
ChunksBefore(chunks, n) == SubSeq(chunks, 1, Len(chunks) - n)
EndsInsideSequence(chunks) ==
    DecodeBytes(NewDecoder, Flatten(chunks), <<>>).state.needed # 0

\* C11: U+00E9 (bytes 195 169) split over two consecutive increments: after
\* the first, the lead byte is kept by the decoder and nothing, no U+FFFD
\* either, is added to the text; after the second, the text is the text of
\* the chunks before followed by the one code point 233, and that is what
\* the growing turn holds.
C11_SplitCharacterDecoded ==
    \A i \in Slots :
        pc[i] = "read" =>
            LET n == Len(received[i])
            IN  /\ ( /\ n >= 1
                     /\ received[i][n] = <<195>>
                     /\ ~EndsInsideSequence(ChunksBefore(received[i], 1)) ) =>
                        /\ assistantMessage[i] =
                               WholeText(Flatten(ChunksBefore(received[i], 1)))
                        /\ decoder[i].needed = 1
                /\ ( /\ n >= 2
                     /\ received[i][n - 1] = <<195>>
                     /\ received[i][n] = <<169>> ) =>
                        /\ assistantMessage[i] =
                               WholeText(Flatten(ChunksBefore(received[i], 1)))
                                   \o <<233>>
                        /\ decoder[i].needed = 0
                        /\ messages # <<>> =>
                               LastTurn(messages) =
                                   AssistantTurn(assistantMessage[i])

\* C11 witness: the two halves have been applied and the turn holds U+00E9.
C11_Witness ==
    /\ pc[1] = "read"
    /\ received[1] = <<<<195>>, <<169>>>>
    /\ messages = <<UserTurn(userMessage), AssistantTurn(<<233>>)>>

\* C12: when a stream is exhausted without error the submission finalizes:
\* the error is empty, isLoading is false, the list is as the last increment
\* left it; and while the invocation stays ended no step changes the list,
\* other than a clear.
C12_FinalizedOnExhaustion ==
    [][ \A i \in Slots :
          /\ EndStep(i) =>
                 /\ error' = ""
                 /\ isLoading' = FALSE
                 /\ messages' = messages
          /\ (pc[i] = "ended" /\ pc'[i] = "ended") =>
                 messages' = messages \/ messages' = <<>>
      ]_vars

\* C12 witness: a stream with text has ended; no error, not loading.
C12_Witness ==
    /\ pc[1] = "ended"
    /\ error = ""
    /\ ~isLoading
    /\ Len(messages) = 2
    /\ LastTurn(messages) = AssistantTurn(<<97>>)

\* C13: every submit that passed validation completes: isLoading, once
\* true, becomes false again; every way out of the handler (stream end,
\* status not 2xx, no body, rejected fetch or read) leaves isLoading false;
\* and isLoading becomes true again only by a new submit.
C13_SubmitCompletes ==
    /\ isLoading ~> ~isLoading
    /\ \A i \in Slots : Active(i) ~> Free(i)
    /\ [][ /\ \A i \in Slots : (EndStep(i) \/ FailStep(i)) => ~isLoading'
           /\ (~isLoading /\ isLoading') => \E i \in Slots : SubmitStep(i)
         ]_vars

\* C13 witness: a submission has come out through catch (the response had no
\* body) and isLoading is false again.
C13_Witness ==
    /\ pc[1] = "failed"
    /\ ResponseOk(response[1].status) /\ ~response[1].hasBody
    /\ error = "No response body"
    /\ ~isLoading

\* C14: the placeholder is appended, with empty content, only when a 2xx
\* response with a body has arrived and before any increment of the stream;
\* an assistant turn enters the list in no other way, and an increment is
\* read only by an invocation whose placeholder step has been taken.
C14_PlaceholderAfterResponseBeforeIncrements ==
    [][ /\ \A i \in Slots :
             /\ PlaceholderStep(i) =>
                  /\ response'[i].status \in 200..299
                  /\ response'[i].hasBody
                  /\ messages' = Append(messages, AssistantTurn(<<>>))
                  /\ received[i] = <<>> /\ received'[i] = <<>>
                  /\ assistantMessage'[i] = <<>>
             /\ (received'[i] # received[i] /\ received'[i] # <<>>) =>
                  /\ pc[i] = "read"
                  /\ response[i].status \in 200..299
                  /\ response[i].hasBody
        /\ TurnsOf(messages', "assistant") > TurnsOf(messages, "assistant") =>
             \E i \in Slots : PlaceholderStep(i)
      ]_vars

\* C14 witness: the placeholder is in the list, empty, and no increment has
\* been read yet.
C14_Witness ==
    /\ pc[1] = "read"
    /\ received[1] = <<>>
    /\ response[1] = Response(200, TRUE)
    /\ messages = <<UserTurn(userMessage), AssistantTurn(<<>>)>>

\* C15: nothing is sent again on its own: a POST is issued only by the
\* fetch call of an invocation that has not posted yet, an invocation never
\* goes back to an earlier position, an invocation starts only from the
\* enabled form, and a failure issues no POST and leaves one error message.
C15_NoAutomaticRetry ==
    [][ /\ nPosts' # nPosts =>
             /\ nPosts' = nPosts + 1
             /\ \E i \in Slots : PostStep(i) /\ request[i] = NoRequest
        /\ \A i \in Slots :
             /\ pc[i] = "fetch" => pc'[i] \in {"fetch", "read", "failed"}
             /\ pc[i] = "read" => pc'[i] \in {"read", "ended", "failed"}
             /\ SubmitStep(i) => ~isLoading
             /\ FailStep(i) =>
                  /\ nPosts' = nPosts
                  /\ error' # ""
                  /\ ~isLoading'
      ]_vars

\* C15 witness: the one POST of a submit was rejected by the network; the
\* error shows and nothing more was sent.
C15_Witness ==
    /\ pc[1] = "failed"
    /\ response[1] = NoResponse
    /\ nPosts = 1
    /\ error = "network error"
    /\ ~isLoading

\* The ways a step may change the list.
ListCleared == messages' = <<>> /\ pc' = pc
TurnAppended ==
    /\ Len(messages') = Len(messages) + 1
    /\ SubSeq(messages', 1, Len(messages)) = messages
LastTurnGrew ==
    /\ \E i \in Slots : pc[i] = "read"
    /\ messages # <<>>
    /\ Len(messages') = Len(messages)
    /\ \A k \in 1..(Len(messages) - 1) : messages'[k] = messages[k]
    /\ LastTurn(messages).role = "assistant"
    /\ LastTurn(messages').role = "assistant"
    /\ LET old == LastTurn(messages).content
           new == LastTurn(messages').content
       IN  Len(new) >= Len(old) /\ SubSeq(new, 1, Len(old)) = old
EmptyTurnsRemoved ==
    /\ \E i \in Slots : FailStep(i)
    /\ messages' = SelectSeq(messages, LAMBDA turn : turn.content # <<>>)

\* C16 as claimed: but for clear, a step leaves the list alone, appends one
\* turn, or grows the last assistant turn of a stream being read.
C16_AppendOnly ==
    [][ messages' = messages \/ ListCleared \/ TurnAppended \/ LastTurnGrew
      ]_vars

\* C16 as amended: as claimed, but a failing submission also removes the
\* turns whose content is empty.
C16_AppendOnlyButEmptyTurns ==
    [][ \/ messages' = messages
        \/ ListCleared
        \/ TurnAppended
        \/ LastTurnGrew
        \/ EmptyTurnsRemoved
      ]_vars

\* C16 witness: a second submission has failed and the turns of the first
\* exchange are still there, before its user turn.
C16_Witness ==
    /\ pc[1] = "failed"
    /\ error # ""
    /\ Len(messages) = 3
    /\ messages[2].role = "assistant"
    /\ messages[3].role = "user"

\* C17: when a read fails, the list is left without any assistant turn of
\* empty content and the error is set.
C17_NoEmptyAssistantAfterReadError ==
    [][ \A i \in Slots :
          (pc[i] = "read" /\ pc'[i] = "failed") =>
              /\ error' # ""
              /\ \A k \in DOMAIN messages' :
                    ~(messages'[k].role = "assistant"
                          /\ messages'[k].content = <<>>)
      ]_vars

\* C17 witness: a read failed before any text and the empty turn of an
\* earlier stream went with the placeholder: two user turns are left.
C17_Witness ==
    /\ pc[1] = "failed"
    /\ ResponseOk(response[1].status) /\ response[1].hasBody
    /\ error # ""
    /\ Len(messages) = 2
    /\ messages[1].role = "user"
    /\ messages[2].role = "user"

\* C18: no request in flight carries an api_key field (the page that has
\* the key input sends what was typed in it).
C18_NoKeyInRequest ==
    \A i \in Slots :
        pc[i] \in {"fetch", "read"} => "api_key" \notin DOMAIN request[i]

C20_DeveloperMessageDefaulted ==
    [][ \A i \in Slots :
          PostStep(i) =>
              /\ request'[i].developer_message =
                     IF developerMessage = ""
                     THEN "You are a helpful assistant."
                     ELSE developerMessage
              /\ request'[i].developer_message # ""
      ]_vars

\* C20 witness: a POST is in flight with the canned prompt, the input for
\* the system prompt being empty.
C20_Witness ==
    /\ pc[1] = "fetch"
    /\ developerMessage = ""
    /\ request[1].developer_message = "You are a helpful assistant."

\* The last turn of the list is the placeholder of invocation i: an
\* assistant turn holding the text i has accumulated, that comes right
\* after the user turn of i's request, or alone in a list that was cleared
\* while i was waiting for its response.
OwnPlaceholderIsLast(i) ==
    /\ messages # <<>>
    /\ LastTurn(messages) = AssistantTurn(assistantMessage[i])
    /\ \/ /\ Len(messages) >= 2
          /\ messages[Len(messages) - 1] = UserTurn(request[i].user_message)
       \/ Len(messages) = 1 /\ cleared[i]

\* C21: the step that applies an increment of invocation i writes to i's
\* own placeholder, or to nothing when the list has been cleared: the
\* length of the list, every user turn and every turn but the last are as
\* they were.
C21_IncrementWrittenToOwnPlaceholder ==
    [][ \A i \in Slots :
          (ChunkStep(i) /\ pc'[i] = "read") =>
              /\ Len(messages') = Len(messages)
              /\ \A k \in DOMAIN messages :
                    (k < Len(messages) \/ messages[k].role = "user") =>
                        messages'[k] = messages[k]
              /\ messages # <<>> =>
                    /\ OwnPlaceholderIsLast(i)
                    /\ LastTurn(messages') = AssistantTurn(assistantMessage'[i])
              /\ messages = <<>> => cleared[i]
      ]_vars

\* C21 witness: the stream of a second submission has had text applied to
\* its placeholder and the turns of the first exchange are as they ended.
C21_Witness ==
    /\ pc[1] = "read"
    /\ received[1] # <<>>
    /\ Len(messages) = 4
    /\ messages[2] = AssistantTurn(<<97>>)
    /\ messages[3].role = "user"
    /\ messages[4] = AssistantTurn(<<233>>)

\* C22: a failing submission leaves the list as it was, or without its last
\* turn if that is an assistant turn of empty content (its own placeholder);
\* every other turn stays, in place.
C22_FailureRemovesOwnPlaceholderOnly ==
    [][ \A i \in Slots :
          FailStep(i) =>
              \/ messages' = messages
              \/ /\ messages # <<>>
                 /\ LastTurn(messages) = AssistantTurn(<<>>)
                 /\ messages' = SubSeq(messages, 1, Len(messages) - 1)
      ]_vars

\* The step that empties a list that held turns while no invocation moves:
\* handleClearChat (a failure may empty a list too, of a lone placeholder).
ClearStep == messages # <<>> /\ ListCleared

\* C23: the step that empties the list sets the error to empty and leaves
\* every other state of the page and of the running invocations as it was
\* (isLoading included); an invocation that was running when the list was
\* cleared goes on to its end or to its failure.
C23_ClearLeavesStreamRunning ==
    /\ [][ ClearStep =>
             /\ error' = ""
             /\ UNCHANGED <<apiKey, developerMessage, userMessage, isLoading,
                            pc, request, response, assistantMessage, decoder,
                            received, nPosts>>
         ]_vars
    /\ \A i \in Slots : (cleared[i] /\ Active(i)) ~> pc[i] \in {"ended", "failed"}

\* C23 witness: the list was cleared while the response was awaited, and
\* the stream has been read since: the page is still loading.
C23_Witness ==
    /\ cleared[1]
    /\ pc[1] = "read"
    /\ received[1] = <<<<97>>>>
    /\ isLoading
    /\ error = ""

\* C24: a failing submission leaves in the message input the text it sent,
\* a rejected submit leaves the input as it is, and the input changes only
\* by the end of a stream (to empty) or by typing while nothing is loading.
C24_InputKeptOnFailure ==
    [][ /\ \A i \in Slots :
             FailStep(i) =>
                 /\ userMessage' = userMessage
                 /\ userMessage' = request[i].user_message
        /\ (error' = "Please enter a message" /\ error' # error) =>
                 userMessage' = userMessage
        /\ userMessage' # userMessage =>
             \/ userMessage' = <<>> /\ \E i \in Slots : EndStep(i)
             \/ /\ ~isLoading
                /\ UNCHANGED <<apiKey, developerMessage, messages, isLoading,
                               error, pc, request, response, assistantMessage,
                               decoder, received, nPosts>>
      ]_vars

\* C24 witness: a read failed after some text and the input still holds the
\* text of the user turn.
C24_Witness ==
    /\ pc[1] = "failed"
    /\ response[1] = Response(200, TRUE)
    /\ userMessage = <<32, 104>>
    /\ messages = <<UserTurn(userMessage), AssistantTurn(<<97>>)>>
    /\ error = "network error"

\* C25: when a 2xx response comes without a body, the step that receives it
\* ends the invocation with the error "No response body": the list is as it
\* was, with no assistant turn added and its user turn kept, and isLoading
\* is false; no placeholder step is taken by a response without a body.
C25_NoBodyFailsBeforePlaceholder ==
    [][ \A i \in Slots :
          ( /\ pc[i] = "fetch"
            /\ response'[i] # response[i]
            /\ ResponseOk(response'[i].status)
            /\ ~response'[i].hasBody ) =>
              /\ pc'[i] = "failed"
              /\ error' = "No response body"
              /\ ~isLoading'
              /\ TurnsOf(messages', "assistant") <= TurnsOf(messages, "assistant")
              /\ TurnsOf(messages', "user") = TurnsOf(messages, "user")
              /\ ~cleared[i] =>
                    /\ messages' # <<>>
                    /\ LastTurn(messages') = UserTurn(request[i].user_message)
      ]_vars

\* C25 witness: a 200 without a body has ended the submit: the user turn
\* is alone in the list and the error shows.
C25_Witness ==
    /\ pc[1] = "failed"
    /\ response[1] = Response(200, FALSE)
    /\ error = "No response body"
    /\ messages = <<UserTurn(userMessage)>>
    /\ userMessage = <<32, 104>>
    /\ ~isLoading

====
